---- MODULE Spec2Model ----
(***************************************************************************)
(* Model of clm's notebook cell accessors and predicates                   *)
(* (clm/utils/jupyter_utils.py), its file-name sanitizer, and the          *)
(* directory classifiers of clm/core/directory_kind.py.                    *)
(*                                                                         *)
(* A call is one step: `op` is the function called, `args` its arguments   *)
(* (without the cell), `result` what it returned.  `cell` is the notebook  *)
(* cell the calls are made on, `log` the records the call handed to the    *)
(* logging module, `fs` what the file system holds at each path.           *)
(***************************************************************************)
EXTENDS Integers, Sequences, FiniteSets, TLC

VARIABLES cell, log, last_tags, fs, op, args, result

vars == <<cell, log, last_tags, fs, op, args, result>>

(* ------------------------------ bounds -------------------------------- *)
\* longest tag list a cell holds or set_tags is given
MaxTags == 2
\* longest text handed to sanitize_file_name
MaxLen == 3
\* number of paths of the file system
NumPaths == 3

(* --------------------------- small helpers ---------------------------- *)
Range(s) == {s[i] : i \in 1..Len(s)}

SeqsUpTo(S, n) == UNION {[1..k -> S] : k \in 0..n}

\* Python's None, as a return value
None == "None"

(* ------------------------------- cells -------------------------------- *)
\* the tag vocabulary of the module
SLIDE_TAGS == {"slide", "subslide", "notes"}

PRIVATE_TAGS == {"notes", "private"}

EXPECTED_GENERIC_TAGS == SLIDE_TAGS \cup PRIVATE_TAGS

EXPECTED_CODE_TAGS == {"keep", "alt", "del"} \cup EXPECTED_GENERIC_TAGS

EXPECTED_MARKDOWN_TAGS == {"notes"} \cup EXPECTED_GENERIC_TAGS

\* tags a cell may carry: the vocabulary and one tag outside it
Tags == EXPECTED_CODE_TAGS \cup {"other_tag"}

TagLists == SeqsUpTo(Tags, MaxTags)

CellTypes == {"markdown", "code"}

\* values of metadata.lang, and the language codes asked for
CellLangs == {"", "en"}

LangCodes == {"en", "de", "EN"}

\* cell["metadata"]: a dict that may or may not have the keys tags and lang
Metadata(hasTags, tags, hasLang, lang) ==
    [k \in (IF hasTags THEN {"tags"} ELSE {}) \cup (IF hasLang THEN {"lang"} ELSE {})
        |-> IF k = "tags" THEN tags ELSE lang]

Metadatas ==
    {Metadata(ht, t, hl, l) : ht \in BOOLEAN, t \in TagLists, hl \in BOOLEAN, l \in CellLangs}

Cells == [cell_type : CellTypes, metadata : Metadatas]

get_cell_type(c) == c.cell_type

get_tags(c) ==
    IF "tags" \in DOMAIN c.metadata THEN c.metadata["tags"] ELSE <<>>

\* set_tags that stores the list it is given even when it is empty
set_tags_stores_empty(c, tags) ==
    [c EXCEPT !.metadata =
        [k \in DOMAIN c.metadata \cup {"tags"} |->
            IF k = "tags" THEN tags ELSE c.metadata[k]]]

\* the cell after set_tags(c, tags)
set_tags(c, tags) ==
    IF tags # <<>>
    THEN [c EXCEPT !.metadata =
            [k \in DOMAIN c.metadata \cup {"tags"} |->
                IF k = "tags" THEN tags ELSE c.metadata[k]]]
    ELSE IF "tags" \in DOMAIN c.metadata
         THEN [c EXCEPT !.metadata =
                 [k \in DOMAIN c.metadata \ {"tags"} |-> c.metadata[k]]]
         ELSE c

has_tag(c, tag) == tag \in Range(get_tags(c))

get_cell_language(c) ==
    IF "lang" \in DOMAIN c.metadata THEN c.metadata["lang"] ELSE ""

\* is_deleted_cell that lets keep win over del
is_deleted_cell_unless_kept(c) ==
    "del" \in Range(get_tags(c)) /\ "keep" \notin Range(get_tags(c))

is_deleted_cell(c) == "del" \in Range(get_tags(c))

\* is_private_cell that looks for the tag private only
is_private_cell_private_only(c) == "private" \in Range(get_tags(c))

is_private_cell(c) == (PRIVATE_TAGS \cap Range(get_tags(c))) # {}

is_public_cell(c) == ~ is_private_cell(c)

is_alternate_solution(c) == "alt" \in Range(get_tags(c))

\* the codealong test without the keep tag
is_cell_contents_included_ignores_keep(c) == get_cell_type(c) # "code"

\* the codealong test that takes any tag at all for keep
is_cell_contents_included_any_tag(c) ==
    get_cell_type(c) # "code" \/ get_tags(c) # <<>>

is_cell_contents_included_in_codealongs(c) ==
    get_cell_type(c) # "code" \/ "keep" \in Range(get_tags(c))

\* the language test without the default for cells that have no language
should_cell_be_retained_exact(c, lang) == get_cell_language(c) = lang

should_cell_be_retained_for_language(c, lang) ==
    LET cell_lang == get_cell_language(c)
    IN  cell_lang = "" \/ cell_lang = lang

\* the record logging.warning adds for several slide tags
SlideTagWarning == [levelname |-> "WARNING", msg |-> "Found more than one slide tag"]

\* get_slide_tag that warns as soon as there is one slide tag
get_slide_tag_warns_on_one(c) ==
    LET tags == get_tags(c)
        slide_tags == SLIDE_TAGS \cap Range(tags)
    IN  IF slide_tags # {}
        THEN {[result |-> t, cell |-> c, log |-> <<SlideTagWarning>>] : t \in slide_tags}
        ELSE {[result |-> None, cell |-> c, log |-> <<>>]}

\* get_slide_tag that pops the tag from the cell's own tag list
get_slide_tag_pops_cell(c) ==
    LET tags == get_tags(c)
        slide_tags == SLIDE_TAGS \cap Range(tags)
    IN  IF slide_tags # {}
        THEN {[result |-> t,
               cell |-> [c EXCEPT !.metadata["tags"] = SelectSeq(tags, LAMBDA x : x # t)],
               log |-> IF Cardinality(slide_tags) > 1
                       THEN <<SlideTagWarning>> ELSE <<>>] : t \in slide_tags}
        ELSE {[result |-> None, cell |-> c, log |-> <<>>]}

\* get_slide_tag(c): every outcome the call can have, as the value returned,
\* the cell afterwards and the records logged.  set.pop() removes an
\* arbitrary element of the local set slide_tags.
get_slide_tag(c) ==
    LET tags == get_tags(c)
        slide_tags == SLIDE_TAGS \cap Range(tags)
    IN  IF slide_tags # {}
        THEN {[result |-> t,
               cell |-> c,
               log |-> IF Cardinality(slide_tags) > 1
                       THEN <<SlideTagWarning>> ELSE <<>>] : t \in slide_tags}
        ELSE {[result |-> None, cell |-> c, log |-> <<>>]}

(* ------------------------------ actions ------------------------------- *)
Call(name, a, r) == op' = name /\ args' = a /\ result' = r

GetCellType ==
    /\ Call("get_cell_type", <<>>, get_cell_type(cell))
    /\ log' = <<>>
    /\ UNCHANGED <<cell, last_tags, fs>>

GetTags ==
    /\ Call("get_tags", <<>>, get_tags(cell))
    /\ log' = <<>>
    /\ UNCHANGED <<cell, last_tags, fs>>

\* set_tags(cell, tags), leaving the history variable to the caller
SetTagsCall(tags) ==
    /\ cell' = set_tags(cell, tags)
    /\ Call("set_tags", <<tags>>, None)
    /\ log' = <<>>
    /\ UNCHANGED fs

SetTags ==
    \E tags \in TagLists :
        /\ SetTagsCall(tags)
        /\ UNCHANGED last_tags

\* the same call, remembering the list passed (history for the round trip)
SetTagsRecorded ==
    \E tags \in TagLists :
        /\ SetTagsCall(tags)
        /\ last_tags' = <<tags>>

HasTag ==
    \E tag \in Tags :
        /\ Call("has_tag", <<tag>>, has_tag(cell, tag))
        /\ log' = <<>>
        /\ UNCHANGED <<cell, last_tags, fs>>

GetCellLanguage ==
    /\ Call("get_cell_language", <<>>, get_cell_language(cell))
    /\ log' = <<>>
    /\ UNCHANGED <<cell, last_tags, fs>>

IsDeletedCell ==
    /\ Call("is_deleted_cell", <<>>, is_deleted_cell(cell))
    /\ log' = <<>>
    /\ UNCHANGED <<cell, last_tags, fs>>

IsPrivateCell ==
    /\ Call("is_private_cell", <<>>, is_private_cell(cell))
    /\ log' = <<>>
    /\ UNCHANGED <<cell, last_tags, fs>>

IsPublicCell ==
    /\ Call("is_public_cell", <<>>, is_public_cell(cell))
    /\ log' = <<>>
    /\ UNCHANGED <<cell, last_tags, fs>>

IsAlternateSolution ==
    /\ Call("is_alternate_solution", <<>>, is_alternate_solution(cell))
    /\ log' = <<>>
    /\ UNCHANGED <<cell, last_tags, fs>>

GetSlideTag ==
    \E o \in get_slide_tag(cell) :
        /\ cell' = o.cell
        /\ log' = o.log
        /\ Call("get_slide_tag", <<>>, o.result)
        /\ UNCHANGED <<last_tags, fs>>

IsCellContentsIncludedInCodealongs ==
    /\ Call("is_cell_contents_included_in_codealongs", <<>>,
            is_cell_contents_included_in_codealongs(cell))
    /\ log' = <<>>
    /\ UNCHANGED <<cell, last_tags, fs>>

ShouldCellBeRetainedForLanguage ==
    \E lang \in LangCodes :
        /\ Call("should_cell_be_retained_for_language", <<lang>>,
                should_cell_be_retained_for_language(cell, lang))
        /\ log' = <<>>
        /\ UNCHANGED <<cell, last_tags, fs>>

\* no file system is involved in the cell calls
NoFs == <<>>

\* no cell is involved in the calls on texts and paths
NoCell == <<>>

\* any cell a notebook can hold, before any call
Init ==
    /\ cell \in Cells
    /\ log = <<>>
    /\ last_tags = <<>>
    /\ fs = NoFs
    /\ op = "none"
    /\ args = <<>>
    /\ result = None

\* the predicates and the read accessors, on a cell that is given
Next ==
    \/ GetCellType
    \/ GetCellLanguage
    \/ HasTag
    \/ IsDeletedCell
    \/ IsPrivateCell
    \/ IsPublicCell
    \/ IsAlternateSolution
    \/ GetSlideTag
    \/ IsCellContentsIncludedInCodealongs
    \/ ShouldCellBeRetainedForLanguage

Spec == Init /\ [][Next]_vars

\* the tag accessors; last_tags is the list of the latest set_tags call
NextTags ==
    \/ SetTagsRecorded
    \/ GetTags

SpecTags == Init /\ [][NextTags]_vars

\* set_tags and the predicates, in any order
NextCell ==
    \/ SetTags
    \/ IsDeletedCell
    \/ IsPrivateCell
    \/ IsPublicCell
    \/ IsAlternateSolution
    \/ GetSlideTag
    \/ IsCellContentsIncludedInCodealongs
    \/ ShouldCellBeRetainedForLanguage

SpecCell == Init /\ [][NextCell]_vars

(* ----------------------- sanitize_file_name --------------------------- *)
\* a text is a sequence of characters, each a string of length one
PARENS_TO_REPLACE == <<"{", "}", "[", "]">>

REPLACEMENT_PARENS == <<"(", ")", "(", ")">>

\* the backquote character, which a TLA+ string cannot spell
Backquote == "backquote"

CHARS_TO_REPLACE ==
    <<"/", "\\", "$", "!", "'", "\"", "#", "%", "&", "<", ">", "*", "?", "+", Backquote, "|">>

REPLACEMENT_CHARS == [i \in 1..Len(CHARS_TO_REPLACE) |-> "_"]

CHARS_TO_DELETE == <<":">>

\* str.maketrans(x, y, z): x[i] goes to y[i], every character of z to None;
\* a table entry is the text the character becomes
maketrans(x, y, z) ==
    [ch \in Range(x) \cup Range(z) |->
        IF ch \in Range(z)
        THEN <<>>
        ELSE <<y[CHOOSE i \in 1..Len(x) : x[i] = ch /\ \A j \in (i + 1)..Len(x) : x[j] # ch]>>]

STRING_TRANSLATION_TABLE ==
    maketrans(PARENS_TO_REPLACE \o CHARS_TO_REPLACE,
              REPLACEMENT_PARENS \o REPLACEMENT_CHARS,
              CHARS_TO_DELETE)

\* the characters str.strip() removes that a TLA+ string can spell
WHITESPACE == {" ", "\t", "\n", "\r", "\f"}

RECURSIVE lstrip(_)
lstrip(text) ==
    IF text # <<>> /\ Head(text) \in WHITESPACE THEN lstrip(Tail(text)) ELSE text

RECURSIVE rstrip(_)
rstrip(text) ==
    IF text # <<>> /\ text[Len(text)] \in WHITESPACE
    THEN rstrip(SubSeq(text, 1, Len(text) - 1))
    ELSE text

strip(text) == rstrip(lstrip(text))

RECURSIVE translate(_, _)
translate(text, table) ==
    IF text = <<>>
    THEN <<>>
    ELSE (IF Head(text) \in DOMAIN table THEN table[Head(text)] ELSE <<Head(text)>>)
         \o translate(Tail(text), table)

sanitize_file_name(text) == translate(strip(text), STRING_TRANSLATION_TABLE)

\* the characters the texts are made of: white space, the deleted colon,
\* replaced brackets and characters, and a letter
Alphabet == {" ", "\t", ":", "{", "]", "?", "a"}

Texts == SeqsUpTo(Alphabet, MaxLen)

\* sanitize_file_name on the text that was given
SanitizeFileName ==
    /\ op = "none"
    /\ Call("sanitize_file_name", args, sanitize_file_name(args[1]))
    /\ log' = <<>>
    /\ UNCHANGED <<cell, last_tags, fs>>

\* sanitize_file_name on the text the last call returned
SanitizeAgain ==
    /\ op = "sanitize_file_name"
    /\ Call("sanitize_file_name", <<result>>, sanitize_file_name(result))
    /\ log' = <<>>
    /\ UNCHANGED <<cell, last_tags, fs>>

InitSanitize ==
    /\ cell = NoCell
    /\ log = <<>>
    /\ last_tags = <<>>
    /\ fs = NoFs
    /\ op = "none"
    /\ args \in {<<text>> : text \in Texts}
    /\ result = None

NextSanitize ==
    \/ SanitizeFileName
    \/ SanitizeAgain

SpecSanitize == InitSanitize /\ [][NextSanitize]_vars

(* ------------------------- directory kinds ---------------------------- *)
IGNORED_LABEL == "Ignored"

DATA_FILE_LABEL == "DataFile"

FOLDER_LABEL == "Folder"

NOTEBOOK_LABEL == "Notebook"

EXAMPLE_SOLUTION_LABEL == "ExampleSolution"

EXAMPLE_STARTER_KIT_LABEL == "ExampleStarterKit"

Labels ==
    {IGNORED_LABEL, DATA_FILE_LABEL, FOLDER_LABEL, NOTEBOOK_LABEL,
     EXAMPLE_SOLUTION_LABEL, EXAMPLE_STARTER_KIT_LABEL}

Paths == 1..NumPaths

\* what a path names: a regular file, a directory, nothing, or a symbolic
\* link to a regular file
EntryKinds == {"file", "dir", "missing", "link_to_file"}

\* Path.is_file(): true for a regular file and for a link to one
is_file(f, path) == f[path] \in {"file", "link_to_file"}

IgnoredDirectory_label_for(f, file_or_dir) == IGNORED_LABEL

\* the general policy that labels a directory a folder
GeneralDirectory_label_for_folder(f, file_or_dir) ==
    IF is_file(f, file_or_dir) THEN DATA_FILE_LABEL ELSE FOLDER_LABEL

GeneralDirectory_label_for(f, file_or_dir) ==
    IF is_file(f, file_or_dir) THEN DATA_FILE_LABEL ELSE IGNORED_LABEL

IgnoredLabelFor ==
    \E path \in Paths :
        /\ Call("IgnoredDirectory.label_for", <<path>>, IgnoredDirectory_label_for(fs, path))
        /\ log' = <<>>
        /\ UNCHANGED <<cell, last_tags, fs>>

GeneralLabelFor ==
    \E path \in Paths :
        /\ Call("GeneralDirectory.label_for", <<path>>, GeneralDirectory_label_for(fs, path))
        /\ log' = <<>>
        /\ UNCHANGED <<cell, last_tags, fs>>

InitDir ==
    /\ cell = NoCell
    /\ log = <<>>
    /\ last_tags = <<>>
    /\ fs \in [Paths -> EntryKinds]
    /\ op = "none"
    /\ args = <<>>
    /\ result = None

NextDir ==
    \/ IgnoredLabelFor
    \/ GeneralLabelFor

SpecDir == InitDir /\ [][NextDir]_vars

(* ------------------------------ claims -------------------------------- *)
\* the tags of a cell, position by position
HasTagAt(c, tag) == \E i \in 1..Len(get_tags(c)) : get_tags(c)[i] = tag

SlideTagsOf(c) == {t \in {"slide", "subslide", "notes"} : HasTagAt(c, t)}

\* C1: sanitize_file_name is idempotent: applied to a text it returned, it
\* returns that text.
SanitizeIdempotent ==
    op = "sanitize_file_name" => sanitize_file_name(result) = result

\* C2: once set_tags has been called, get_tags gives the list passed to the
\* latest set_tags call, and when that list is empty the metadata has no tags
\* key.
TagRoundTrip ==
    last_tags # <<>> =>
        /\ get_tags(cell) = last_tags[1]
        /\ op = "get_tags" => result = last_tags[1]
        /\ last_tags[1] = <<>> => "tags" \notin DOMAIN cell.metadata

TagRoundTripWitness ==
    /\ op = "get_tags"
    /\ last_tags = << <<>> >>
    /\ result = <<>>
    /\ "tags" \notin DOMAIN cell.metadata

\* C3: is_private_cell is true exactly when the tags contain notes or
\* private, and is_public_cell is its negation.
PrivatePublicComplement ==
    /\ op = "is_private_cell" =>
            result = (HasTagAt(cell, "notes") \/ HasTagAt(cell, "private"))
    /\ op = "is_public_cell" =>
            /\ result = ~ is_private_cell(cell)
            /\ result = ~ (HasTagAt(cell, "notes") \/ HasTagAt(cell, "private"))

PrivatePublicWitness ==
    /\ op = "is_public_cell"
    /\ HasTagAt(cell, "notes")
    /\ ~ HasTagAt(cell, "private")
    /\ result = FALSE

\* C4: the contents of a cell that is not code are always included in
\* codealongs; those of a code cell exactly when it has the tag keep.
CodealongRetention ==
    op = "is_cell_contents_included_in_codealongs" =>
        /\ cell.cell_type # "code" => result = TRUE
        /\ cell.cell_type = "code" => result = HasTagAt(cell, "keep")

CodealongWitness ==
    /\ op = "is_cell_contents_included_in_codealongs"
    /\ cell.cell_type = "code"
    /\ HasTagAt(cell, "keep")
    /\ result = TRUE

\* C5: a cell is retained for a language exactly when it has no language,
\* an empty language, or that very language code.
LanguageRetention ==
    op = "should_cell_be_retained_for_language" =>
        result = \/ "lang" \notin DOMAIN cell.metadata
                 \/ cell.metadata["lang"] = ""
                 \/ cell.metadata["lang"] = args[1]

LanguageWitness ==
    /\ op = "should_cell_be_retained_for_language"
    /\ "lang" \in DOMAIN cell.metadata
    /\ cell.metadata["lang"] = "en"
    /\ args = <<"EN">>
    /\ result = FALSE

\* C6: get_slide_tag returns None exactly when the cell has no slide tag,
\* otherwise one of the cell's slide tags, and it logs a warning exactly when
\* the cell has more than one.
SlideTagChoice ==
    [][op' = "get_slide_tag" =>
        LET I == SlideTagsOf(cell)
        IN  /\ (I = {}) <=> (result' = None)
            /\ I # {} => result' \in I
            /\ Cardinality(I) > 1 => log' = <<SlideTagWarning>>
            /\ Cardinality(I) <= 1 => log' = <<>>]_vars

SlideTagWitness ==
    /\ op = "get_slide_tag"
    /\ Cardinality(SlideTagsOf(cell)) > 1
    /\ result \in SlideTagsOf(cell)
    /\ log = <<SlideTagWarning>>

\* C7: is_deleted_cell is true exactly when del is among the tags, whatever
\* the other tags, the cell type and the language.
DeletionPrecedence ==
    op = "is_deleted_cell" => result = HasTagAt(cell, "del")

DeletionWitness ==
    /\ op = "is_deleted_cell"
    /\ HasTagAt(cell, "del")
    /\ HasTagAt(cell, "keep")
    /\ result = TRUE

\* C8: the ignored policy labels every entry Ignored; the general policy
\* labels a regular file DataFile and a directory Ignored, and gives no other
\* label.
DirectoryLabels ==
    /\ op = "IgnoredDirectory.label_for" => result = "Ignored"
    /\ op = "GeneralDirectory.label_for" =>
            /\ fs[args[1]] = "file" => result = "DataFile"
            /\ fs[args[1]] = "dir" => result = "Ignored"
            /\ result \in {"DataFile", "Ignored"}

DirectoryWitness ==
    /\ op = "GeneralDirectory.label_for"
    /\ fs[args[1]] = "dir"
    /\ result = "Ignored"

\* the cell with its tags outside the recognized vocabulary removed, with
\* the tags key kept and, when no tag is left, also without the key
RecognizedTags == {"slide", "subslide", "notes", "private", "keep", "alt", "del"}

WithTags(c, hasTags, tags) ==
    [cell_type |-> c.cell_type,
     metadata |->
        [k \in (DOMAIN c.metadata \ {"tags"}) \cup (IF hasTags THEN {"tags"} ELSE {})
            |-> IF k = "tags" THEN tags ELSE c.metadata[k]]]

Twins(c) ==
    LET known == SelectSeq(get_tags(c), LAMBDA t : t \in RecognizedTags)
    IN  {WithTags(c, TRUE, known)}
            \cup (IF known = <<>> THEN {WithTags(c, FALSE, <<>>)} ELSE {})

SlideOutcomes(c) == {<<o.result, o.log>> : o \in get_slide_tag(c)}

\* C9: what a predicate returns on a cell is what it returns on the cell
\* without its unrecognized tags, and a missing tags key counts as an empty
\* tag list.
UnknownTagsIgnored ==
    \A d \in Twins(cell) :
        /\ op = "is_deleted_cell" => result = is_deleted_cell(d)
        /\ op = "is_private_cell" => result = is_private_cell(d)
        /\ op = "is_public_cell" => result = is_public_cell(d)
        /\ op = "is_alternate_solution" => result = is_alternate_solution(d)
        /\ op = "is_cell_contents_included_in_codealongs" =>
                result = is_cell_contents_included_in_codealongs(d)
        /\ op = "should_cell_be_retained_for_language" =>
                result = should_cell_be_retained_for_language(d, args[1])
        /\ op = "get_slide_tag" =>
                /\ result \in {o[1] : o \in SlideOutcomes(d)}
                /\ SlideOutcomes(cell) = SlideOutcomes(d)

UnknownTagsWitness ==
    /\ op = "is_cell_contents_included_in_codealongs"
    /\ cell.cell_type = "code"
    /\ get_tags(cell) = <<"other_tag">>
    /\ result = FALSE

\* C10: a predicate call leaves the cell as it was; a set_tags call changes
\* nothing of the cell but the tags key of its metadata.
CellFrame ==
    [][/\ op' # "set_tags" => cell' = cell
       /\ op' = "set_tags" =>
            /\ cell'.cell_type = cell.cell_type
            /\ DOMAIN cell'.metadata \ {"tags"} = DOMAIN cell.metadata \ {"tags"}
            /\ \A k \in DOMAIN cell.metadata \ {"tags"} :
                    cell'.metadata[k] = cell.metadata[k]]_vars

CellFrameWitness ==
    /\ op = "get_slide_tag"
    /\ {"slide", "notes"} \subseteq Range(get_tags(cell))
    /\ log # <<>>

====
